---------------------------- MODULE Spec2Model ----------------------------
(***************************************************************************)
(* add_starfield.c: add a random starfield to a gray+alpha image.          *)
(*                                                                         *)
(* The model follows main(): the size check, the row-major coordinate     *)
(* list, the Fisher-Yates shuffle driven by rand() after srand(1), the     *)
(* visit loop (IsStarLocation && IsEmptyRegion, in-place compaction of     *)
(* stars[], DrawPixel of the accepted star) and the render loop for the    *)
(* frame number given on the command line.                                 *)
(*                                                                         *)
(* A uint32_t is a pair <<hi, lo>> of 16-bit halves, so that the hash's    *)
(* shifts, additions and exclusive-ors wrap at 32 bits.                    *)
(***************************************************************************)
EXTENDS Integers, Naturals, Sequences, FiniteSets, TLC

\* ------------------------------------------------------------ bounds ----

\* Largest image width and height the inputs are drawn from.
MaxWidth == 11
MaxHeight == 10
\* Largest RADIUS (a build parameter, -DRADIUS=n) the builds are drawn from.
MaxRadius == 2
\* The C libraries (rand() implementations) the runs are drawn from: 0..MaxLibc.
MaxLibc == 1
\* How many of the Obstacles may be opaque in the input image.
NumObstacles == 2
\* Frame numbers given on the command line: 0..MaxFrame.
MaxFrame == 19

\* -------------------------------------------------- program constants ----

\* image.width < 10 || image.height < 10 is rejected.
MinSize == 10
\* Eligibility mask of IsStarLocation, 0x11111, as 16-bit halves.
MaskHi == 1
MaskLo == 4369
\* Frames per glitter phase, and the number of phases.
Divisor == 5
Phases == 4
\* srand(1).
Seed == 1
\* RAND_MAX of the C library (glibc: 2^31 - 1).
RAND_MAX == 2147483647

Half == 65536

\* ------------------------------------------------------------ uint32 ----

RECURSIVE Pow2(_)
Pow2(n) ==
    IF n = 0 THEN 1 ELSE 2 * Pow2(n - 1)

\* A small non-negative int as uint32_t.
U32(n) ==
    <<n \div Half, n % Half>>

\* A uint32_t below 2^31 as an integer.
ToInt(a) ==
    a[1] * Half + a[2]

Add32(a, b) ==
    LET lo == a[2] + b[2]
        hi == a[1] + b[1] + (lo \div Half)
    IN  <<hi % Half, lo % Half>>

\* a << n, for 0 < n < 16.
Shl32(a, n) ==
    LET lo == a[2] * Pow2(n)
        hi == a[1] * Pow2(n) + (lo \div Half)
    IN  <<hi % Half, lo % Half>>

\* a >> n, for 0 < n < 16.
Shr32(a, n) ==
    <<a[1] \div Pow2(n),
      (a[2] \div Pow2(n)) + (a[1] % Pow2(n)) * Pow2(16 - n)>>

RECURSIVE XorBits(_, _, _)
XorBits(a, b, n) ==
    IF n = 0 THEN 0
    ELSE ((a + b) % 2) + 2 * XorBits(a \div 2, b \div 2, n - 1)

RECURSIVE AndBits(_, _, _)
AndBits(a, b, n) ==
    IF n = 0 THEN 0
    ELSE ((a % 2) * (b % 2)) + 2 * AndBits(a \div 2, b \div 2, n - 1)

Xor32(a, b) ==
    <<XorBits(a[1], b[1], 16), XorBits(a[2], b[2], 16)>>

And32(a, b) ==
    <<AndBits(a[1], b[1], 16), AndBits(a[2], b[2], 16)>>

\* -------------------------------------------------------------- hash ----

Max(a, b) ==
    IF a > b THEN a ELSE b

Min(a, b) ==
    IF a < b THEN a ELSE b

\* One byte of Jenkins' one-at-a-time hash.
HashByte(hash, byte) ==
    LET h1 == Add32(hash, U32(byte))
        h2 == Add32(h1, Shl32(h1, 10))
    IN  Xor32(h2, Shr32(h2, 6))

RECURSIVE HashLoop(_, _, _)
HashLoop(bytes, k, hash) ==
    IF k > Len(bytes) THEN hash
    ELSE HashLoop(bytes, k + 1, HashByte(hash, bytes[k]))

Hash(bytes) ==
    LET h0 == HashLoop(bytes, 1, U32(0))
        h1 == Add32(h0, Shl32(h0, 3))
        h2 == Xor32(h1, Shr32(h1, 11))
    IN  Add32(h2, Shl32(h2, 15))

\* memcpy of a non-negative 4-byte int, least significant byte first.
IntBytes(n) ==
    <<n % 256, (n \div 256) % 256, (n \div 65536) % 256, (n \div 16777216) % 256>>

\* HashPair(x, y) for every coordinate of the largest image, computed once.
HashPairs ==
    [x \in 0..(MaxWidth - 1) |->
        [y \in 0..(MaxHeight - 1) |-> Hash(IntBytes(x) \o IntBytes(y))]]

HashPair(x, y) ==
    HashPairs[x][y]

IsStarLocation(x, y) ==
    And32(HashPair(x, y), <<MaskHi, MaskLo>>) = <<0, 0>>

\* The division applied to the hash alone, the frame added after it.
PhaseDividedFirst(x, y, f) ==
    ((ToInt(Shr32(HashPair(x, y), 4)) \div Divisor) + f) % Phases

\* j = (((HashPair(x, y) >> 4) + frame) / 5) % 4, in unsigned arithmetic.
Phase(x, y, f) ==
    (ToInt(Add32(Shr32(HashPair(x, y), 4), U32(f))) \div Divisor) % Phases

\* ------------------------------------------------------------- rand ----

\* rand() belongs to the C library: after srand(1) its sequence is fixed for
\* a given library and unknown otherwise.  The libraries range over a small
\* family of 15-bit congruential generators whose state is the high half of
\* the value returned; library 0 returns RAND_MAX every time.
RandMult(l) ==
    IF l = 0 THEN 0 ELSE 4 * ((l * 93) % 8192) + 1

RandInc(l) ==
    IF l = 0 THEN 32767 ELSE 2 * ((l * 977) % 16384) + 1

RandNext(l, state) ==
    (RandMult(l) * state + RandInc(l)) % 32768

RandValue(state) ==
    state * Half + (Half - 1)

\* floor(r * n / RAND_MAX) for 0 <= r <= RAND_MAX and 0 <= n < 32768, which
\* is what (double)r / (double)RAND_MAX * n truncates to (RAND_MAX is prime,
\* so the quotient is never within rounding distance of an integer unless r
\* is 0 or RAND_MAX).  The product is split so that nothing exceeds 2^31.
ScaleRand(r, n) ==
    LET rh == r \div Half
        rl == r % Half
        qa == (rh * n) \div 32768
        ra == (rh * n) % 32768
        u  == qa + rl * n
    IN  qa + (IF u >= RAND_MAX - ra * Half THEN 1 ELSE 0)

\* RandomInt(a, b) with r the value rand() returned.
RandomInt(a, b, r) ==
    ScaleRand(r, b - a) + a

\* ------------------------------------------------------------ canvas ----

Transparent == <<255, 0>>
Black == <<0, 255>>
Erased == <<0, 0>>

\* Pixels the input image may hold opaque content at, with that content
\* (gray, alpha): the first NumObstacles of them are used.
Obstacles ==
    << [x |-> 0, y |-> 1, ga |-> <<200, 255>>],
       [x |-> 4, y |-> 8, ga |-> <<90, 1>>],
       [x |-> 7, y |-> 4, ga |-> <<30, 128>>],
       [x |-> 1, y |-> 2, ga |-> <<0, 255>>],
       [x |-> 8, y |-> 1, ga |-> <<255, 255>>],
       [x |-> 6, y |-> 8, ga |-> <<17, 64>>] >>

\* The obstacles of the crowded image: on a 10x10 canvas each eligible
\* coordinate has one of them next to it.
Crowded ==
    {1, 5, 6}

PixelCount(img) ==
    img.width * img.height

\* (iy * image->width + ix): the pixel index of a coordinate.
Index(img, x, y) ==
    y * img.width + x

\* The image file with the obstacles in `opaque` (a set of indices into
\* Obstacles) on a transparent background.
InputCanvas(img, opaque) ==
    [k \in 0..(PixelCount(img) - 1) |->
        IF \E o \in opaque : Index(img, Obstacles[o].x, Obstacles[o].y) = k
        THEN Obstacles[CHOOSE o \in opaque :
                 Index(img, Obstacles[o].x, Obstacles[o].y) = k].ga
        ELSE Transparent]

\* The bounds check without its lower bounds.
InImageNoLower(img, x, y) ==
    x < img.width /\ y < img.height

\* x >= 0 && x < width && y >= 0 && y < height
InImage(img, x, y) ==
    x >= 0 /\ x < img.width /\ y >= 0 /\ y < img.height

\* A DrawPixel that leaves the buffer as it is.
DrawPixelNoMark(img, px, x, y) ==
    px

\* Draw a single opaque black pixel.
DrawPixel(img, px, x, y) ==
    IF InImage(img, x, y)
    THEN [px EXCEPT ![Index(img, x, y)] = Black]
    ELSE px

\* The coordinates DrawPixel(x, y) writes.
DrawPixelWrites(img, x, y) ==
    IF InImage(img, x, y) THEN {<<x, y>>} ELSE {}

\* pixels[(iy * width + ix) * 2 + 1]: the alpha byte IsEmptyRegion reads.  An
\* index past the end of the buffer reads whatever the heap holds there
\* (`past`).
AlphaAt(img, px, ix, iy, past) ==
    IF Index(img, ix, iy) < PixelCount(img)
    THEN px[Index(img, ix, iy)][2]
    ELSE past

\* A scan that starts at the candidate's own row or column.
ScanFirstAtCentre(c, r) ==
    Max(c, 0)

\* A loop variable of IsEmptyRegion runs from Max(c - r, 0) while it is
\* <= Min(c + r, size).
ScanFirst(c, r) ==
    Max(c - r, 0)

\* A scan that ends at the candidate's own row or column.
ScanLastAtCentre(c, r, size) ==
    Min(c, size)

ScanLast(c, r, size) ==
    Min(c + r, size)

\* A scan that skips the pixels at distance RADIUS too (>= for >).
IsEmptyRegionOpenDisc(img, px, x, y, r, past) ==
    LET x0   == ScanFirst(x, r)
        y0   == ScanFirst(y, r)
        cols == ScanLast(x, r, img.width) - x0 + 1
        rows == ScanLast(y, r, img.height) - y0 + 1
        n    == IF cols > 0 /\ rows > 0 THEN cols * rows ELSE 0
        ix(k) == x0 + ((k - 1) % cols)
        iy(k) == y0 + ((k - 1) \div cols)
        near(k) == (x - ix(k)) * (x - ix(k)) + (y - iy(k)) * (y - iy(k)) < r * r
        hits == {k \in 1..n : near(k) /\ AlphaAt(img, px, ix(k), iy(k), past) # 0}
        last == IF hits = {} THEN n
                ELSE CHOOSE k \in hits : \A m \in hits : k <= m
    IN  [empty |-> hits = {},
         reads |-> {<<ix(k), iy(k)>> : k \in {m \in 1..last : near(m)}}]

\* IsEmptyRegion(image, pixels, x, y) with RADIUS = r: the rows and columns
\* are scanned in order, the pixels farther than r are skipped, and the scan
\* returns 0 at the first non-zero alpha.  empty: the value returned; reads:
\* the coordinates whose alpha byte was read.
IsEmptyRegion(img, px, x, y, r, past) ==
    LET x0   == ScanFirst(x, r)
        y0   == ScanFirst(y, r)
        cols == ScanLast(x, r, img.width) - x0 + 1
        rows == ScanLast(y, r, img.height) - y0 + 1
        n    == IF cols > 0 /\ rows > 0 THEN cols * rows ELSE 0
        ix(k) == x0 + ((k - 1) % cols)
        iy(k) == y0 + ((k - 1) \div cols)
        near(k) == (x - ix(k)) * (x - ix(k)) + (y - iy(k)) * (y - iy(k)) <= r * r
        hits == {k \in 1..n : near(k) /\ AlphaAt(img, px, ix(k), iy(k), past) # 0}
        last == IF hits = {} THEN n
                ELSE CHOOSE k \in hits : \A m \in hits : k <= m
    IN  [empty |-> hits = {},
         reads |-> {<<ix(k), iy(k)>> : k \in {m \in 1..last : near(m)}}]

\* Phase(x, y, f) for every coordinate of the largest image and the frames
\* the properties below range over, computed once.
StarPhases ==
    [x \in 0..(MaxWidth - 1) |->
        [y \in 0..(MaxHeight - 1) |->
            [f \in 0..(MaxFrame + 4 * Divisor * 2) |-> Phase(x, y, f)]]]

\* The glitter phase of a star at the given frame.
StarPhase(star, f) ==
    StarPhases[star[1]][star[2]][f]

\* A render iteration whose phase 0 flips the centre pixel instead of
\* clearing it.
RenderStarToggle(img, px, star, f) ==
    LET x == star[1]
        y == star[2]
        j == StarPhase(star, f)
    IN  IF j = 0
        THEN [px EXCEPT ![Index(img, x, y)] = IF @ = Erased THEN Black ELSE Erased]
        ELSE IF j = 1 \/ j = 3
        THEN px
        ELSE DrawPixel(img,
                 DrawPixel(img,
                     DrawPixel(img,
                         DrawPixel(img, px, x - 1, y),
                         x + 1, y),
                     x, y - 1),
                 x, y + 1)

\* A render iteration that skips the neighbours in phase 1 only, so that
\* phase 3 draws them too.
RenderStarGlitterIn3(img, px, star, f) ==
    LET x == star[1]
        y == star[2]
        j == StarPhase(star, f)
    IN  IF j = 0
        THEN [px EXCEPT ![Index(img, x, y)] = Erased]
        ELSE IF j = 1
        THEN px
        ELSE DrawPixel(img,
                 DrawPixel(img,
                     DrawPixel(img,
                         DrawPixel(img, px, x - 1, y),
                         x + 1, y),
                     x, y - 1),
                 x, y + 1)

\* A render iteration whose last draw repeats (x, y - 1) instead of
\* drawing (x, y + 1).
RenderStarThreeNeighbours(img, px, star, f) ==
    LET x == star[1]
        y == star[2]
        j == StarPhase(star, f)
    IN  IF j = 0
        THEN [px EXCEPT ![Index(img, x, y)] = Erased]
        ELSE IF j = 1 \/ j = 3
        THEN px
        ELSE DrawPixel(img,
                 DrawPixel(img,
                     DrawPixel(img,
                         DrawPixel(img, px, x - 1, y),
                         x + 1, y),
                     x, y - 1),
                 x, y - 1)

\* One iteration of the render loop, for the star at (x, y).
RenderStar(img, px, star, f) ==
    LET x == star[1]
        y == star[2]
        j == StarPhase(star, f)
    IN  IF j = 0
        THEN [px EXCEPT ![Index(img, x, y)] = Erased]
        ELSE IF j = 1 \/ j = 3
        THEN px
        ELSE DrawPixel(img,
                 DrawPixel(img,
                     DrawPixel(img,
                         DrawPixel(img, px, x - 1, y),
                         x + 1, y),
                     x, y - 1),
                 x, y + 1)

\* The coordinates that iteration writes.
RenderStarWrites(img, star, f) ==
    LET x == star[1]
        y == star[2]
        j == StarPhase(star, f)
    IN  IF j = 0
        THEN {<<x, y>>}
        ELSE IF j = 1 \/ j = 3
        THEN {}
        ELSE DrawPixelWrites(img, x - 1, y) \cup DrawPixelWrites(img, x + 1, y)
             \cup DrawPixelWrites(img, x, y - 1) \cup DrawPixelWrites(img, x, y + 1)

\* for(i = 0; i < star_count; i++) ...: the render loop from star k on.
RECURSIVE RenderFrom(_, _, _, _, _, _)
RenderFrom(img, px, st, count, f, k) ==
    IF k >= count THEN px
    ELSE RenderFrom(img, RenderStar(img, px, st[k], f), st, count, f, k + 1)

RenderFrame(img, px, st, count, f) ==
    RenderFrom(img, px, st, count, f, 0)

RenderWrites(img, st, count, f) ==
    UNION {RenderStarWrites(img, st[k], f) : k \in 0..(count - 1)}

\* ------------------------------------------------------------- state ----

VARIABLES
    pc,              \* where main() is
    RADIUS,          \* the build's RADIUS
    libc,            \* the C library linked in (its rand())
    next,            \* the state of rand()
    file,            \* the input image: [width, height, pixels]
    image,           \* png_image: width, height
    pixels,          \* the gray+alpha buffer, by pixel index
    stars,           \* XY *stars, by index
    max_star_count,
    star_count,
    i,
    frame,
    scanned,         \* the coordinates the last IsEmptyRegion call read
    written,         \* the coordinates the render loop wrote
    visited,         \* the candidates the visit loop has examined, in order
    output,          \* what was written to stdout
    twin             \* a second run of the visit loop on the same input

vars ==
    <<pc, RADIUS, libc, next, file, image, pixels, stars, max_star_count,
      star_count, i, frame, scanned, written, visited, output, twin>>

Sizes ==
    [width : (MinSize - 1)..MaxWidth, height : (MinSize - 1)..MaxHeight]

\* The state main() starts in, but for the build's RADIUS.
InitInput ==
    /\ pc = "load"
    /\ libc \in 0..MaxLibc
    /\ next = 0
    /\ \E img \in Sizes, opaque \in SUBSET (1..NumObstacles) \cup {Crowded} :
          file = [width |-> img.width, height |-> img.height,
                  pixels |-> InputCanvas(img, opaque)]
    /\ image = [width |-> 0, height |-> 0]
    /\ pixels = <<>>
    /\ stars = <<>>
    /\ max_star_count = 0
    /\ star_count = 0
    /\ i = 0
    /\ frame = 0
    /\ scanned = {}
    /\ written = {}
    /\ visited = <<>>
    /\ output = <<>>
    /\ twin = [pixels |-> <<>>, stars |-> <<>>, star_count |-> 0]

Init ==
    /\ RADIUS \in 1..MaxRadius
    /\ InitInput

\* png_image_begin_read, the size check, png_image_finish_read.
LoadInput ==
    /\ pc = "load"
    /\ image' = [width |-> file.width, height |-> file.height]
    /\ IF file.width < MinSize \/ file.height < MinSize
       THEN pc' = "exit" /\ pixels' = pixels
       ELSE pc' = "init" /\ pixels' = file.pixels
    /\ UNCHANGED <<RADIUS, libc, next, file, stars, max_star_count, star_count,
                   i, frame, scanned, written, visited, output, twin>>

\* The coordinate list in row-major order, srand(1), and the shuffle's i.
InitStars ==
    /\ pc = "init"
    /\ max_star_count' = PixelCount(image)
    /\ stars' = [k \in 0..(PixelCount(image) - 1) |->
                    <<k % image.width, k \div image.width>>]
    /\ next' = Seed
    /\ i' = PixelCount(image) - 1
    /\ pc' = "shuffle"
    /\ UNCHANGED <<RADIUS, libc, file, image, pixels, star_count, frame,
                   scanned, written, visited, output, twin>>

\* A swap that copies stars[j] to stars[i] and never stores the saved
\* stars[i] in stars[j].
ShuffleStepNoWriteBack ==
    /\ pc = "shuffle"
    /\ i > 0
    /\ LET state == RandNext(libc, next)
           j == RandomInt(0, i, RandValue(state))
       IN  /\ next' = state
           /\ stars' = [stars EXCEPT ![i] = stars[j]]
    /\ i' = i - 1
    /\ UNCHANGED <<pc, RADIUS, libc, file, image, pixels, max_star_count,
                   star_count, frame, scanned, written, visited, output, twin>>

\* One iteration of the Fisher-Yates loop.
ShuffleStep ==
    /\ pc = "shuffle"
    /\ i > 0
    /\ LET state == RandNext(libc, next)
           j == RandomInt(0, i, RandValue(state))
       IN  /\ next' = state
           /\ stars' = [stars EXCEPT ![i] = stars[j], ![j] = stars[i]]
    /\ i' = i - 1
    /\ UNCHANGED <<pc, RADIUS, libc, file, image, pixels, max_star_count,
                   star_count, frame, scanned, written, visited, output, twin>>

\* The shuffle loop ends; for(i = star_count = 0; ...
VisitLoopInit ==
    /\ pc = "shuffle"
    /\ i <= 0
    /\ i' = 0
    /\ star_count' = 0
    /\ pc' = "visit"
    /\ UNCHANGED <<RADIUS, libc, next, file, image, pixels, stars,
                   max_star_count, frame, scanned, written, visited, output>>

StartVisit ==
    /\ VisitLoopInit
    /\ UNCHANGED twin

\* The bytes an out-of-buffer read may find.
PastEnd ==
    {0, 255}

\* A visit iteration that increments star_count before it stores the
\* accepted coordinate.
VisitCandidateWriteAhead(img, px, st, count, k, r, past) ==
    LET x == st[k][1]
        y == st[k][2]
        region == IsEmptyRegion(img, px, x, y, r, past)
    IN  IF IsStarLocation(x, y)
        THEN IF region.empty
             THEN [pixels |-> DrawPixel(img, px, x, y),
                   stars |-> [st EXCEPT ![count + 1] = <<x, y>>],
                   star_count |-> count + 1,
                   scanned |-> region.reads]
             ELSE [pixels |-> px, stars |-> st, star_count |-> count,
                   scanned |-> region.reads]
        ELSE [pixels |-> px, stars |-> st, star_count |-> count,
              scanned |-> {}]

\* A visit iteration that counts the accepted coordinate and leaves it where
\* it is in the array.
VisitCandidateNoCompact(img, px, st, count, k, r, past) ==
    LET x == st[k][1]
        y == st[k][2]
        region == IsEmptyRegion(img, px, x, y, r, past)
    IN  IF IsStarLocation(x, y)
        THEN IF region.empty
             THEN [pixels |-> DrawPixel(img, px, x, y),
                   stars |-> st,
                   star_count |-> count + 1,
                   scanned |-> region.reads]
             ELSE [pixels |-> px, stars |-> st, star_count |-> count,
                   scanned |-> region.reads]
        ELSE [pixels |-> px, stars |-> st, star_count |-> count,
              scanned |-> {}]

\* One iteration of the visit loop on (st, px, count): the candidate st[k]
\* is accepted or skipped.
VisitCandidate(img, px, st, count, k, r, past) ==
    LET x == st[k][1]
        y == st[k][2]
        region == IsEmptyRegion(img, px, x, y, r, past)
    IN  IF IsStarLocation(x, y)
        THEN IF region.empty
             THEN [pixels |-> DrawPixel(img, px, x, y),
                   stars |-> [st EXCEPT ![count] = <<x, y>>],
                   star_count |-> count + 1,
                   scanned |-> region.reads]
             ELSE [pixels |-> px, stars |-> st, star_count |-> count,
                   scanned |-> region.reads]
        ELSE [pixels |-> px, stars |-> st, star_count |-> count,
              scanned |-> {}]

VisitIteration ==
    /\ pc = "visit"
    /\ i < max_star_count
    /\ \E past \in PastEnd :
          LET v == VisitCandidate(image, pixels, stars, star_count, i, RADIUS, past)
          IN  /\ pixels' = v.pixels
              /\ stars' = v.stars
              /\ star_count' = v.star_count
              /\ scanned' = v.scanned
              /\ visited' = Append(visited,
                      [c |-> stars[i], accepted |-> v.star_count > star_count])
    /\ i' = i + 1
    /\ UNCHANGED <<pc, RADIUS, libc, next, file, image, max_star_count, frame,
                   written, output>>

VisitStep ==
    /\ VisitIteration
    /\ UNCHANGED twin

\* frame = atoi(argv[2]) and the render loop.
Render ==
    /\ pc = "visit"
    /\ i >= max_star_count
    /\ \E f \in 0..MaxFrame :
          /\ frame' = f
          /\ pixels' = RenderFrame(image, pixels, stars, star_count, f)
          /\ written' = RenderWrites(image, stars, star_count, f)
    /\ pc' = "write"
    /\ UNCHANGED <<RADIUS, libc, next, file, image, stars, max_star_count,
                   star_count, i, scanned, visited, output, twin>>

\* png_image_write_to_stdio.
WriteOutput ==
    /\ pc = "write"
    /\ output' = <<pixels>>
    /\ pc' = "done"
    /\ UNCHANGED <<RADIUS, libc, next, file, image, pixels, stars,
                   max_star_count, star_count, i, frame, scanned, written,
                   visited, twin>>

Next ==
    \/ LoadInput
    \/ InitStars
    \/ ShuffleStep
    \/ StartVisit
    \/ VisitStep
    \/ Render
    \/ WriteOutput

Spec ==
    Init /\ [][Next]_vars

\* ------------------------------------------------------- every build ----

\* RADIUS is whatever -DRADIUS=n gave the compiler: nothing in the source
\* restricts it, so a build may have RADIUS 0 or a negative RADIUS.
BuildInit ==
    /\ RADIUS \in (0 - 1)..MaxRadius
    /\ InitInput

BuildSpec ==
    BuildInit /\ [][Next]_vars

\* ---------------------------------------------------------- two runs ----

\* Two runs of the program on the same image file with the same C library:
\* up to the visit loop they execute the same deterministic steps, so the
\* second run starts the visit loop from a copy of the first one's state and
\* then takes its own iterations, with its own out-of-buffer reads.
TwinStartVisit ==
    /\ VisitLoopInit
    /\ twin' = [pixels |-> pixels, stars |-> stars, star_count |-> 0]

TwinVisitStep ==
    /\ VisitIteration
    /\ \E past \in PastEnd :
          LET v == VisitCandidate(image, twin.pixels, twin.stars,
                                  twin.star_count, i, RADIUS, past)
          IN  twin' = [pixels |-> v.pixels, stars |-> v.stars,
                       star_count |-> v.star_count]

TwinNext ==
    \/ LoadInput
    \/ InitStars
    \/ ShuffleStep
    \/ TwinStartVisit
    \/ TwinVisitStep

TwinSpec ==
    Init /\ [][TwinNext]_vars

\* ------------------------------------------------------------ claims ----

Coords(img) ==
    (0..(img.width - 1)) \X (0..(img.height - 1))

Dist2(p, q) ==
    (p[1] - q[1]) * (p[1] - q[1]) + (p[2] - q[2]) * (p[2] - q[2])

\* The Star Registry: stars[0 .. star_count-1].
Registry ==
    {stars[k] : k \in 0..(star_count - 1)}

Visiting ==
    pc \in {"visit", "write", "done"}

GenerationDone ==
    (pc = "visit" /\ i >= max_star_count) \/ pc \in {"write", "done"}

Rendered ==
    pc \in {"write", "done"}

\* IsStarLocation(x, y) for every coordinate of the largest image, computed
\* once.
StarLocations ==
    [x \in 0..(MaxWidth - 1) |->
        [y \in 0..(MaxHeight - 1) |-> IsStarLocation(x, y)]]

Eligible(c) ==
    StarLocations[c[1]][c[2]]

InputOpaque(c) ==
    file.pixels[Index(image, c[1], c[2])][2] # 0

FullyTransparentInput ==
    \A k \in DOMAIN file.pixels : file.pixels[k][2] = 0

OnBorder(c) ==
    c[1] = 0 \/ c[2] = 0 \/ c[1] = image.width - 1 \/ c[2] = image.height - 1

Neighbours(c) ==
    {<<c[1] - 1, c[2]>>, <<c[1] + 1, c[2]>>, <<c[1], c[2] - 1>>, <<c[1], c[2] + 1>>}

\* C1: when the visit loop has finished, any two stars of the registry are
\* farther apart than RADIUS: (px-qx)^2 + (py-qy)^2 > RADIUS^2.
C1_StarsApart ==
    GenerationDone =>
        \A a, b \in 0..(star_count - 1) :
            a < b => Dist2(stars[a], stars[b]) > RADIUS * RADIUS

\* Two stars were accepted and an eligible coordinate within RADIUS of one of
\* them was left out.
C1_Witness ==
    /\ GenerationDone
    /\ star_count >= 2
    /\ \E c \in Coords(image) :
          /\ Eligible(c)
          /\ c \notin Registry
          /\ \E s \in Registry : Dist2(c, s) <= RADIUS * RADIUS

\* C2: every accepted star is farther than RADIUS from every pixel whose
\* alpha was non-zero in the input image.
C2_StarsClearOfInput ==
    Visiting =>
        \A k \in 0..(star_count - 1) : \A c \in Coords(image) :
            InputOpaque(c) => Dist2(stars[k], c) > RADIUS * RADIUS

\* A star was accepted, and an eligible coordinate within RADIUS of opaque
\* input content was left out.
C2_Witness ==
    /\ GenerationDone
    /\ star_count >= 1
    /\ \E c \in Coords(image) :
          /\ Eligible(c)
          /\ c \notin Registry
          /\ \E o \in Coords(image) :
                InputOpaque(o) /\ Dist2(c, o) <= RADIUS * RADIUS

\* C3: IsEmptyRegion reads only pixels with 0 <= ix < W and 0 <= iy < H: never
\* column W, never row H.
C3_ScanClipped ==
    \A c \in scanned :
        /\ 0 <= c[1] /\ c[1] < image.width
        /\ 0 <= c[2] /\ c[2] < image.height

\* C4: a visited candidate is accepted if and only if it is eligible and no
\* pixel of the canvas within RADIUS of it has non-zero alpha at that moment;
\* an accepted candidate is appended to the registry and its pixel is opaque
\* black before the next candidate is examined.
C4_AcceptedIffIsolated ==
    [][(pc = "visit" /\ i' = i + 1) =>
          LET c == stars[i]
              accepted == star_count' = star_count + 1
              isolated == \A q \in Coords(image) :
                              Dist2(c, q) <= RADIUS * RADIUS
                                  => pixels[Index(image, q[1], q[2])][2] = 0
          IN  /\ accepted <=> (Eligible(c) /\ isolated)
              /\ ~accepted => (star_count' = star_count /\ pixels' = pixels)
              /\ accepted =>
                    /\ stars'[star_count] = c
                    /\ pixels'[Index(image, c[1], c[2])] = <<0, 255>>]_vars

\* C5: every pixel the render loop writes (the erase and the four neighbour
\* draws) is inside the canvas, and so is every coordinate of the registry.
C5_RenderInCanvas ==
    /\ \A c \in written :
          /\ 0 <= c[1] /\ c[1] < image.width
          /\ 0 <= c[2] /\ c[2] < image.height
    /\ Rendered =>
          \A s \in Registry :
              /\ 0 <= s[1] /\ s[1] < image.width
              /\ 0 <= s[2] /\ s[2] < image.height

\* A frame was rendered in which a star on the border glitters (one of its
\* neighbours is outside the canvas) and another star is erased.
C5_Witness ==
    /\ pc = "write"
    /\ \E a, b \in Registry :
          /\ OnBorder(a)
          /\ StarPhase(a, frame) = 2
          /\ Neighbours(a) \cap written # {}
          /\ StarPhase(b, frame) = 0
          /\ b \in written

\* C6: the phase of a star has period 20 in the frame number and runs through
\* 0 -> 1 -> 2 -> 3 -> 0: it is one higher (modulo 4) 5 frames later, and
\* changes exactly once in any 5 consecutive frames.
C6_PhasePeriodic ==
    GenerationDone =>
        \A s \in Registry : \A f \in 0..MaxFrame :
            /\ StarPhase(s, f) \in 0..3
            /\ StarPhase(s, f + 20) = StarPhase(s, f)
            /\ StarPhase(s, f + 5) = (StarPhase(s, f) + 1) % 4
            /\ StarPhase(s, f + 1) \in {StarPhase(s, f), (StarPhase(s, f) + 1) % 4}
            /\ Cardinality({g \in f..(f + 4) :
                               StarPhase(s, g + 1) # StarPhase(s, g)}) = 1

\* A frame was rendered at which one star is in its last glitter frame and
\* another star is in another phase.
C6_Witness ==
    /\ pc = "write"
    /\ \E s, t \in Registry :
          /\ StarPhase(s, frame) = 2
          /\ StarPhase(s, frame + 1) = 3
          /\ StarPhase(t, frame) # 2

\* C7: rendering the same frame again leaves the canvas as the first
\* rendering left it.
C7_RenderIdempotent ==
    Rendered => RenderFrame(image, pixels, stars, star_count, frame) = pixels

\* A frame was rendered that erased one star's centre and drew another
\* star's neighbours.
C7_Witness ==
    /\ pc = "write"
    /\ \E a, b \in Registry :
          /\ StarPhase(a, frame) = 0
          /\ pixels[Index(image, a[1], a[2])] = <<0, 0>>
          /\ StarPhase(b, frame) = 2
          /\ \E n \in Neighbours(b) \cap Coords(image) :
                pixels[Index(image, n[1], n[2])] = <<0, 255>>

\* No star of the registry is in a phase at frame g that frame f would have
\* to undo: its phase at g is 1 or 3, or the one it has at f.
NothingToUndo(g, f) ==
    \A s \in Registry :
        StarPhase(s, g) \in {1, 3} \/ StarPhase(s, g) = StarPhase(s, f)

C9_Deterministic ==
    pc = "visit" =>
        /\ twin.star_count = star_count
        /\ \A k \in 0..(star_count - 1) : twin.stars[k] = stars[k]
        /\ twin.pixels = pixels

\* C10: on a fully transparent image the first eligible coordinate visited is
\* accepted, so the registry is not empty when generation ends.
C10_FirstEligibleAccepted ==
    (Visiting /\ FullyTransparentInput) =>
        /\ star_count = 0 => \A k \in 0..(i - 1) : ~Eligible(stars[k])
        /\ GenerationDone => star_count >= 1

\* C11: no coordinate appears twice among stars[0 .. star_count-1].
C11_NoDuplicates ==
    Visiting =>
        \A a, b \in 0..(star_count - 1) : a # b => stars[a] # stars[b]

\* Generation ended with two stars or more, one of them accepted after an
\* eligible candidate had been rejected and after candidates had been
\* skipped, so that it was stored below the index it was read from.
C11_Witness ==
    /\ GenerationDone
    /\ star_count >= 2
    /\ \E a, b \in 1..Len(visited) :
          /\ a < b
          /\ Eligible(visited[a].c)
          /\ ~visited[a].accepted
          /\ visited[b].accepted

\* C12: with an image narrower or lower than the minimum, or with a negative
\* RADIUS, the program stops before a pixel is modified, a star is accepted
\* or output is written.
C12_MalformedRejected ==
    (file.width < MinSize \/ file.height < MinSize \/ RADIUS < 0) =>
        /\ pixels \in {<<>>, file.pixels}
        /\ star_count = 0
        /\ output = <<>>

\* Every eligible coordinate of the image has opaque input content within
\* RADIUS of it.
NoCandidate ==
    \A c \in Coords(image) :
        Eligible(c) =>
            \E q \in Coords(image) :
                Dist2(c, q) <= RADIUS * RADIUS /\ InputOpaque(q)

\* C13: an image without any eligible and isolated coordinate is no error:
\* the registry stays empty, generation and rendering leave the canvas as
\* the input was, and that canvas is what the program writes.
C13_EmptyRegistryIsValid ==
    (Visiting /\ NoCandidate) =>
        /\ star_count = 0
        /\ pixels = file.pixels
        /\ pc = "write" => written = {}
        /\ pc = "done" => output = <<file.pixels>>

\* The program ran to its end on such an image, which had an eligible
\* coordinate to reject.
C13_Witness ==
    /\ pc = "done"
    /\ NoCandidate
    /\ \E k \in 1..Len(visited) : Eligible(visited[k].c)
    /\ star_count = 0
    /\ output = <<file.pixels>>

WasAccepted(v) ==
    v.accepted

\* The append-only registry: the accepted candidates in the order in which
\* the visit loop accepted them.
Appended ==
    SelectSeq(visited, WasAccepted)

\* C14: star_count never exceeds i, an iteration of the visit loop leaves
\* the candidates it has not visited yet where they are, and
\* stars[0 .. star_count-1] is the sequence of the accepted candidates in
\* acceptance order.
C14_CompactionIsAppend ==
    /\ [](Visiting =>
            /\ star_count <= i
            /\ Len(visited) = i
            /\ Len(Appended) = star_count
            /\ \A k \in 1..star_count : stars[k - 1] = Appended[k].c)
    /\ [][(pc = "visit" /\ i' = i + 1) =>
              /\ star_count <= i
              /\ \A k \in (i + 1)..(max_star_count - 1) : stars'[k] = stars[k]
              /\ visited'[i + 1].c = stars[i]]_vars

\* The program ran to its end with a star that was read from a higher index
\* of the array than the one it was stored at.
C14_Witness ==
    /\ pc = "done"
    /\ \E k \in 1..star_count : \E m \in 1..Len(visited) :
          /\ visited[m].accepted
          /\ visited[m].c = stars[k - 1]
          /\ m > k

\* Values of rand() at the ends and in the middle of [0, RAND_MAX].
RandSamples ==
    {0, 1, 65535, 65536, 1073741823, 1073741824, RAND_MAX - 1, RAND_MAX}

\* C15: at every iteration of the shuffle RandomInt(0, i) lies in 0..i,
\* for the value rand() returns and for the values at the ends of its range,
\* so the swap stays inside the array, and the array holds every coordinate
\* of the image exactly once, during the loop and when it has ended.
C15_ShufflePermutes ==
    pc = "shuffle" =>
        /\ DOMAIN stars = 0..(max_star_count - 1)
        /\ max_star_count = Cardinality(Coords(image))
        /\ {stars[k] : k \in 0..(max_star_count - 1)} = Coords(image)
        /\ i > 0 =>
              \A r \in RandSamples \cup {RandValue(RandNext(libc, next))} :
                  /\ 0 <= RandomInt(0, i, r)
                  /\ RandomInt(0, i, r) <= i

\* The shuffle has ended and has moved coordinates: neither the first nor
\* the last entry is the one the row-major list had there.
C15_Witness ==
    /\ pc = "shuffle"
    /\ i = 0
    /\ stars[0] # <<0, 0>>
    /\ stars[max_star_count - 1] # <<image.width - 1, image.height - 1>>

\* C16: of two eligible coordinates within RADIUS of each other, the one
\* visited later is rejected whenever the one visited earlier was accepted;
\* no coordinate is visited a second time, and a rejected one is not in the
\* registry.
C16_FirstVisitedWins ==
    Visiting =>
        \A a \in 1..Len(visited) :
            Eligible(visited[a].c) =>
                /\ ~visited[a].accepted => visited[a].c \notin Registry
                /\ \A b \in (a + 1)..Len(visited) :
                      /\ visited[b].c # visited[a].c
                      /\ (/\ Eligible(visited[b].c)
                          /\ Dist2(visited[a].c, visited[b].c) <= RADIUS * RADIUS
                          /\ visited[a].accepted)
                             => ~visited[b].accepted

\* Two eligible coordinates within RADIUS of each other were visited: the
\* first was accepted and the second rejected, although the input has no
\* opaque pixel within RADIUS of the second.
C16_Witness ==
    /\ GenerationDone
    /\ \E a, b \in 1..Len(visited) :
          /\ a < b
          /\ Eligible(visited[a].c)
          /\ Eligible(visited[b].c)
          /\ Dist2(visited[a].c, visited[b].c) <= RADIUS * RADIUS
          /\ visited[a].accepted
          /\ ~visited[b].accepted
          /\ \A q \in Coords(image) :
                Dist2(visited[b].c, q) <= RADIUS * RADIUS => ~InputOpaque(q)

PixelAt(c) ==
    pixels[Index(image, c[1], c[2])]

InCanvasNeighbours(s) ==
    {n \in Neighbours(s) : InImage(image, n[1], n[2])}

\* The pixels of star s are those of its phase at the rendered frame.
MatchesPhase(s) ==
    LET j == StarPhase(s, frame)
    IN  /\ j = 0 => PixelAt(s) = <<0, 0>>
        /\ j \in {1, 3} =>
              /\ PixelAt(s) = <<0, 255>>
              /\ \A n \in InCanvasNeighbours(s) :
                    PixelAt(n) = file.pixels[Index(image, n[1], n[2])] /\ PixelAt(n)[2] = 0
        /\ j = 2 =>
              /\ PixelAt(s) = <<0, 255>>
              /\ \A n \in InCanvasNeighbours(s) : PixelAt(n) = <<0, 255>>
              /\ ~OnBorder(s) =>
                    Cardinality({c \in {s} \cup Neighbours(s) : PixelAt(c)[2] # 0}) = 5

\* C17: after a frame is rendered on the freshly generated canvas, the
\* pixels of every star are those of its phase, whatever RADIUS is.
C17_PixelsMatchPhase ==
    Rendered => \A s \in Registry : MatchesPhase(s)

\* C17, amended: they are when RADIUS >= 2, which keeps the neighbours of
\* one star apart from those of every other star.
C17_PixelsMatchPhaseApart ==
    (Rendered /\ RADIUS >= 2) => \A s \in Registry : MatchesPhase(s)

\* A frame was rendered, with RADIUS >= 2, at which a star off the border
\* glitters, a second star is plain and a third is erased.
C17_Witness ==
    /\ pc = "write"
    /\ RADIUS >= 2
    /\ \E a, b, c \in Registry :
          /\ StarPhase(a, frame) = 2
          /\ ~OnBorder(a)
          /\ StarPhase(b, frame) \in {1, 3}
          /\ StarPhase(c, frame) = 0

\* C18: with RADIUS >= 1, every pixel that is opaque in the input keeps its
\* gray and alpha through generation and rendering, and a pixel that differs
\* from the input is a star's centre or a cardinal neighbour of a star, and
\* was fully transparent in the input.
C18_InputPreserved ==
    (Visiting /\ RADIUS >= 1) =>
        \A c \in Coords(image) :
            /\ InputOpaque(c) => PixelAt(c) = file.pixels[Index(image, c[1], c[2])]
            /\ PixelAt(c) # file.pixels[Index(image, c[1], c[2])] =>
                  /\ ~InputOpaque(c)
                  /\ \E s \in Registry : c = s \/ c \in Neighbours(s)

\* A frame was rendered on an image with opaque content: a star's centre
\* and a neighbour of a star differ from the input, and an eligible
\* coordinate next to the content was kept free.
C18_Witness ==
    /\ pc = "write"
    /\ \E s \in Registry :
          /\ PixelAt(s) # file.pixels[Index(image, s[1], s[2])]
          /\ \E n \in InCanvasNeighbours(s) :
                PixelAt(n) # file.pixels[Index(image, n[1], n[2])]
    /\ \E c \in Coords(image) :
          /\ Eligible(c)
          /\ c \notin Registry
          /\ \E n \in InCanvasNeighbours(c) : InputOpaque(n)

\* C19: when the visit loop has ended, every eligible coordinate that is not
\* in the registry has an opaque pixel of the canvas within RADIUS of it.
C19_AcceptedSetMaximal ==
    (pc = "visit" /\ i >= max_star_count) =>
        \A c \in Coords(image) :
            (Eligible(c) /\ c \notin Registry) =>
                \E q \in Coords(image) :
                    Dist2(c, q) <= RADIUS * RADIUS /\ PixelAt(q)[2] # 0

\* The pixels a star owns: its centre and its four cardinal neighbours.
Owned(s) ==
    {s} \cup Neighbours(s)

\* The canvases the render loop's iterations give when the stars with the
\* indices in todo are processed in every possible order.
RECURSIVE RenderAnyOrder(_, _, _, _, _)
RenderAnyOrder(img, px, st, todo, f) ==
    IF todo = {} THEN {px}
    ELSE UNION {RenderAnyOrder(img, RenderStar(img, px, st[k], f), st,
                               todo \ {k}, f) : k \in todo}

\* C20: with RADIUS >= 2 no pixel is owned by two stars of the registry, and
\* rendering a frame gives the same canvas in whatever order the stars are
\* processed.
C20_StarsIndependent ==
    (pc = "visit" /\ i >= max_star_count /\ RADIUS >= 2) =>
        /\ \A a, b \in 0..(star_count - 1) :
              a # b => Owned(stars[a]) \cap Owned(stars[b]) = {}
        /\ \A f \in 0..MaxFrame :
              RenderAnyOrder(image, pixels, stars, 0..(star_count - 1), f)
                  = {RenderFrame(image, pixels, stars, star_count, f)}

\* Generation ended with RADIUS >= 2 and three stars or more, and at some
\* frame one of them is erased while another glitters.
C20_Witness ==
    /\ pc = "visit"
    /\ i >= max_star_count
    /\ RADIUS >= 2
    /\ star_count >= 3
    /\ \E f \in 0..MaxFrame : \E a, b \in Registry :
          StarPhase(a, f) = 0 /\ StarPhase(b, f) = 2

=============================================================================
